---- MODULE Spec2Model ----
(***************************************************************************)
(* Model of PutsAndCalls.py: the options returns calculator.               *)
(*                                                                         *)
(* Numbers.  The program computes in binary floating point; the model      *)
(* computes the same expressions exactly, in fixed point.  One dollar is   *)
(* 10 * UnitsPerTenth units, chosen so that current_price * 0.1,           *)
(* current_price * 0.5 and the linspace step (stop - start) / (N - 1) are  *)
(* whole numbers of units for every price entered in tenths of a dollar.   *)
(* Profit/loss values are units times shares.  The value np.interp returns *)
(* is a fraction, kept as <<b, n, d>> for b + n / d.                       *)
(***************************************************************************)
EXTENDS Integers, Sequences, FiniteSets

VARIABLES
    caller,               \* "none", "main" (the Streamlit button) or "direct"
    pc,                   \* "start", "calculated" (results dict built), "graphed"
    option_type,          \* main's selectbox value / variant of the results
    contract_size,        \* main's "Number of Contracts" (0 on a direct call)
    shares,               \* contract_size argument of calculate_*_returns
    strike_price,         \* units
    premium,              \* units
    current_price,        \* units; argument of calculate_*_returns
    prices,               \* results["prices"]
    profit_loss,          \* results["profit_loss"]
    mark_price,           \* current_price argument of graph_returns
    current_profit_loss,  \* graph_returns local, <<b, n, d>> = b + n/d
    break_even,           \* graph_returns local, units
    seen                  \* history: the first watched request main served, with its results

vars == <<caller, pc, option_type, contract_size, shares, strike_price, premium,
          current_price, prices, profit_loss, mark_price, current_profit_loss,
          break_even, seen>>

-----------------------------------------------------------------------------
(* Bounds of the model *)

MaxPriceK == 2        \* prices entered: 1.0, 2.0, ... MaxPriceK dollars
MaxPremium == 2       \* premiums entered: 0.1 .. MaxPremium tenths
MaxContracts == 2     \* contracts entered: 1 .. MaxContracts

(* Program constants *)

N == 200                      \* np.linspace(..., 200)
SharesPerContract == 100      \* main: contract_size*100
MinContracts == 1             \* number_input min_value=1
MinStrike == 10               \* number_input min_value=1.0, in tenths
MinPremium == 1               \* number_input min_value=0.1, in tenths
MinCurrent == 10              \* number_input min_value=1.0, in tenths

UnitsPerTenth == 10 * (N - 1)

ToUnits(tenths) == tenths * UnitsPerTenth

PUT == "Cash-Secured Put"
CALL == "Covered Call"
PutTitle == "Cash-Secured Put Returns"
CallTitle == "Covered Call Returns"

-----------------------------------------------------------------------------
(* numpy helpers, as the program uses them *)

\* variant: the step taken as (stop - start) / num
linspace_short(start, stop, num) ==
    [i \in 1..num |-> start + (i - 1) * ((stop - start) \div num)]

\* np.linspace(start, stop, num): start + i * (stop - start) / (num - 1)
linspace(start, stop, num) ==
    [i \in 1..num |-> start + (i - 1) * ((stop - start) \div (num - 1))]

Increasing(xp) == \A i \in 1..(Len(xp) - 1) : xp[i] < xp[i + 1]

\* variant: zero outside the grid instead of the boundary value
interp_zero_outside(x, xp, fp) ==
    LET n == Len(xp) IN
    IF x > xp[n] \/ x < xp[1] THEN <<0, 0, 1>>
    ELSE LET j == CHOOSE k \in 1..n : xp[k] <= x /\ (k = n \/ x < xp[k + 1])
         IN IF j = n \/ xp[j] = x
            THEN <<fp[j], 0, 1>>
            ELSE <<fp[j], (fp[j + 1] - fp[j]) * (x - xp[j]), xp[j + 1] - xp[j]>>

\* np.interp(x, xp, fp) for increasing xp: clamps outside [xp[0], xp[-1]],
\* returns fp[j] on an exact hit, else slope * (x - xp[j]) + fp[j] with
\* slope = (fp[j+1] - fp[j]) / (xp[j+1] - xp[j]).  The result <<b, n, d>>
\* stands for b + n / d.
interp(x, xp, fp) ==
    LET n == Len(xp) IN
    IF x > xp[n] THEN <<fp[n], 0, 1>>
    ELSE IF x < xp[1] THEN <<fp[1], 0, 1>>
    ELSE LET j == CHOOSE k \in 1..n : xp[k] <= x /\ (k = n \/ x < xp[k + 1])
         IN IF j = n \/ xp[j] = x
            THEN <<fp[j], 0, 1>>
            ELSE <<fp[j], (fp[j + 1] - fp[j]) * (x - xp[j]), xp[j + 1] - xp[j]>>

-----------------------------------------------------------------------------
(* calculate_put_returns *)

put_low(cp) == cp \div 10          \* current_price * 0.1
put_high(cp) == cp * 2             \* current_price * 2.0

\* variant: the grid kept from the previous calculation when there is one
put_prices_kept(cp) ==
    IF prices # <<>> THEN prices ELSE linspace(put_low(cp), put_high(cp), N)

put_prices(cp) == linspace(put_low(cp), put_high(cp), N)

put_expired(prem, cs) == prem * cs
\* variant: the premium subtracted instead of added
put_assigned_minus(p, strike, prem, cs) == (p - (strike + prem)) * cs

put_assigned(p, strike, prem, cs) == (p - (strike - prem)) * cs

put_payoff(p, strike, prem, cs) ==
    IF p >= strike THEN put_expired(prem, cs)
                   ELSE put_assigned(p, strike, prem, cs)

calculate_put_returns(strike, prem, cp, cs) ==
    LET ps == put_prices(cp) IN
    [prices |-> ps,
     profit_loss |-> [i \in 1..N |-> put_payoff(ps[i], strike, prem, cs)]]

(* calculate_call_returns *)

call_low(cp) == cp \div 2          \* current_price * 0.5
call_high(cp) == cp * 2            \* current_price * 2.0

call_prices(cp) == linspace(call_low(cp), call_high(cp), N)

\* variant: the stock move taken with the wrong sign
call_held_reversed(p, prem, cp, cs) == (prem + (cp - p)) * cs

call_held(p, prem, cp, cs) == (prem + (p - cp)) * cs
\* variant: the cap taken at the strike without the purchase price
call_capped_gross(strike, prem, cp, cs) == (prem + strike) * cs

call_capped(strike, prem, cp, cs) == (prem + (strike - cp)) * cs

call_payoff(p, strike, prem, cp, cs) ==
    IF p < strike THEN call_held(p, prem, cp, cs)
                  ELSE call_capped(strike, prem, cp, cs)

calculate_call_returns(strike, prem, cp, cs) ==
    LET ps == call_prices(cp) IN
    [prices |-> ps,
     profit_loss |-> [i \in 1..N |-> call_payoff(ps[i], strike, prem, cp, cs)]]

(* graph_returns: the two values it derives *)

\* variant: the curve value of the grid entry below, no interpolation
graph_current_profit_loss_step(cp, ps, pl) ==
    <<pl[CHOOSE k \in 1..Len(ps) : k = Len(ps) \/ cp < ps[k + 1]], 0, 1>>

graph_current_profit_loss(cp, ps, pl) == interp(cp, ps, pl)

\* variant: the strike-based break-even for both option types
graph_break_even_strike(strike, prem, cp, title) == strike - prem

graph_break_even(strike, prem, cp, title) ==
    IF title = PutTitle THEN strike - prem ELSE cp - prem

TitleOf(opt) == IF opt = PUT THEN PutTitle ELSE CallTitle

-----------------------------------------------------------------------------
(* Inputs *)

\* variant: a widget without a minimum
number_input_free(typed, m) == typed

\* st.number_input(min_value=m): the widget yields no value below m
number_input(typed, m) == {v \in typed : v >= m}

TypedPrices == {-50, 0} \cup {10 * k : k \in 1..MaxPriceK}
TypedPremiums == 0..MaxPremium
TypedContracts == 0..MaxContracts

ContractInputs == number_input(TypedContracts, MinContracts)
StrikeInputs == number_input(TypedPrices, MinStrike)
PremiumInputs == number_input(TypedPremiums, MinPremium)
CurrentInputs == number_input(TypedPrices, MinCurrent)

\* arguments of a direct call of calculate_*_returns (no widget in between)
DirectStrikes == {0, 10}
DirectCurrents == {-50, 0, 10}
DirectShares == {0, 100}
DirectPremiums == {1}

\* prices a caller of graph_returns may mark on a given grid
Marks(ps) == {ps[1] - 1, ps[1], ps[2], ps[2] + 1, ps[N - 1] + 2, ps[N], ps[N] + 1}

\* The history variable records, when it is switched on, the first request
\* of the watched kind (one contract at the money) and what main produced.
NoRequest(on) == [on |-> on, set |-> FALSE, others |-> FALSE]

Watched(opt, n, k, pr, c) == n = MinContracts /\ pr = MinPremium /\ k = c

Request == [option_type |-> option_type, contract_size |-> contract_size,
            strike_price |-> strike_price, premium |-> premium,
            current_price |-> current_price]

Bundle == [prices |-> prices, profit_loss |-> profit_loss,
           break_even |-> break_even, current_profit_loss |-> current_profit_loss]

-----------------------------------------------------------------------------
Init ==
    /\ caller = "none"
    /\ pc = "start"
    /\ option_type = PUT
    /\ contract_size = 0
    /\ shares = 0
    /\ strike_price = 0
    /\ premium = 0
    /\ current_price = 0
    /\ prices = <<>>
    /\ profit_loss = <<>>
    /\ mark_price = 0
    /\ current_profit_loss = <<0, 0, 1>>
    /\ break_even = 0
    /\ seen = NoRequest(FALSE)

\* main: the "Calculate Returns" button with the widgets' current values
main ==
    \E opt \in {PUT, CALL}, n \in ContractInputs, k \in StrikeInputs,
       pr \in PremiumInputs, c \in CurrentInputs :
      \E keep \in {FALSE} \cup {seen.on /\ ~seen.set /\ Watched(opt, n, k, pr, c)} :
        LET results == IF opt = PUT
                       THEN calculate_put_returns(ToUnits(k), ToUnits(pr), ToUnits(c),
                                                  n * SharesPerContract)
                       ELSE calculate_call_returns(ToUnits(k), ToUnits(pr), ToUnits(c),
                                                   n * SharesPerContract)
            title == TitleOf(opt)
        IN  /\ caller' = "main"
            /\ pc' = "graphed"
            /\ option_type' = opt
            /\ contract_size' = n
            /\ shares' = n * SharesPerContract
            /\ strike_price' = ToUnits(k)
            /\ premium' = ToUnits(pr)
            /\ current_price' = ToUnits(c)
            /\ prices' = results.prices
            /\ profit_loss' = results.profit_loss
            /\ mark_price' = ToUnits(c)
            /\ current_profit_loss' =
                   graph_current_profit_loss(ToUnits(c), results.prices,
                                             results.profit_loss)
            /\ break_even' = graph_break_even(ToUnits(k), ToUnits(pr), ToUnits(c), title)
            /\ seen' = IF keep
                       THEN [on |-> TRUE, set |-> TRUE, others |-> FALSE,
                             req |-> Request', bundle |-> Bundle']
                       ELSE IF seen.set /\ Request' # seen.req
                       THEN [seen EXCEPT !.others = TRUE]
                       ELSE seen

\* calculate_put_returns / calculate_call_returns called on their own
CalculateDirect ==
    \E opt \in {PUT, CALL}, k \in DirectStrikes, pr \in DirectPremiums,
       c \in DirectCurrents, cs \in DirectShares :
        LET results == IF opt = PUT
                       THEN calculate_put_returns(ToUnits(k), ToUnits(pr), ToUnits(c), cs)
                       ELSE calculate_call_returns(ToUnits(k), ToUnits(pr), ToUnits(c), cs)
        IN  /\ caller' = "direct"
            /\ pc' = "calculated"
            /\ option_type' = opt
            /\ contract_size' = 0
            /\ shares' = cs
            /\ strike_price' = ToUnits(k)
            /\ premium' = ToUnits(pr)
            /\ current_price' = ToUnits(c)
            /\ prices' = results.prices
            /\ profit_loss' = results.profit_loss
            /\ mark_price' = 0
            /\ current_profit_loss' = <<0, 0, 1>>
            /\ break_even' = 0
            /\ seen' = IF seen.set THEN [seen EXCEPT !.others = TRUE] ELSE seen

\* graph_returns called on the results at hand with a price to mark.
\* np.interp is specified for increasing grids only.
GraphDirect ==
    /\ pc # "start"
    /\ Increasing(prices)
    /\ \E m \in Marks(prices) :
        /\ caller' = "direct"
        /\ pc' = "graphed"
        /\ mark_price' = m
        /\ current_profit_loss' = graph_current_profit_loss(m, prices, profit_loss)
        /\ break_even' = graph_break_even(strike_price, premium, m, TitleOf(option_type))
        /\ UNCHANGED <<option_type, contract_size, shares, strike_price, premium,
                       current_price, prices, profit_loss, seen>>

Next == main \/ CalculateDirect \/ GraphDirect

Spec == Init /\ [][Next]_vars

\* The same program with the history switched on, serving requests only
InitHistory ==
    /\ caller = "none"
    /\ pc = "start"
    /\ option_type = PUT
    /\ contract_size = 0
    /\ shares = 0
    /\ strike_price = 0
    /\ premium = 0
    /\ current_price = 0
    /\ prices = <<>>
    /\ profit_loss = <<>>
    /\ mark_price = 0
    /\ current_profit_loss = <<0, 0, 1>>
    /\ break_even = 0
    /\ seen = NoRequest(TRUE)

NextHistory == main \/ CalculateDirect

SpecHistory == InitHistory /\ [][NextHistory]_vars

-----------------------------------------------------------------------------
(* Properties *)

Calculated == pc # "start"
Graphed == pc = "graphed"
ServedByMain == caller = "main" /\ pc = "graphed"

\* the parameters of the results at hand are in their domains
ValidParameters == strike_price > 0 /\ current_price > 0 /\ shares >= 1

\* total shares of the position: contractSize x numberOfContracts
PositionShares ==
    IF contract_size >= 1 THEN SharesPerContract * contract_size ELSE shares

\* the payoff formulas as the specification words them
StatedPutPayoff(p) ==
    IF p >= strike_price THEN premium * PositionShares
                         ELSE (p - strike_price + premium) * PositionShares

StatedCallPayoff(p) ==
    IF p <= strike_price THEN (premium + p - current_price) * PositionShares
                         ELSE (premium + strike_price - current_price) * PositionShares

StatedPayoff(p) == IF option_type = PUT THEN StatedPutPayoff(p) ELSE StatedCallPayoff(p)

\* the fraction v = <<b, n, d>> is the whole number e
IsValue(v, e) == (e - v[1]) * v[3] = v[2]

\* C1: for the cash-secured put every curve value is premium x contractSize x
\* numberOfContracts at grid prices at or above the strike and
\* (p - strike + premium) x contractSize x numberOfContracts below it; with
\* strike 100, premium 2 and 100 shares that is -800 at 90 and 200 at 110.
C1_PutCurve ==
    /\ (Calculated /\ ValidParameters /\ option_type = PUT) =>
           \A i \in 1..N : profit_loss[i] = StatedPutPayoff(prices[i])
    /\ put_payoff(ToUnits(900), ToUnits(1000), ToUnits(20), 100) = ToUnits(-8000)
    /\ put_payoff(ToUnits(1100), ToUnits(1000), ToUnits(20), 100) = ToUnits(2000)

C1_Witness ==
    /\ ServedByMain /\ option_type = PUT /\ contract_size = 2
    /\ \E i \in 1..N : prices[i] < strike_price /\ profit_loss[i] < 0
    /\ \E i \in 1..N : prices[i] >= strike_price /\ profit_loss[i] > 0

\* C2: for the covered call every curve value is (premium + p - currentPrice) x
\* contractSize x numberOfContracts at grid prices up to the strike and the
\* capped (premium + strike - currentPrice) x contractSize x numberOfContracts
\* above it.
C2_CallCurve ==
    (Calculated /\ ValidParameters /\ option_type = CALL) =>
        \A i \in 1..N : profit_loss[i] = StatedCallPayoff(prices[i])

C2_Witness ==
    /\ ServedByMain /\ option_type = CALL /\ contract_size = 2
    /\ \E i \in 1..N : prices[i] <= strike_price /\ profit_loss[i] < 0
    /\ \E i \in 1..N : prices[i] > strike_price /\ profit_loss[i] > 0

\* C3: the break-even reported is strike - premium for the put and
\* currentPrice - premium for the covered call, whatever the grid, the curve
\* and the number of shares; strike 100 and premium 2 give 98 for the put.
C3_BreakEven ==
    /\ Graphed =>
           break_even = IF option_type = PUT THEN strike_price - premium
                                             ELSE mark_price - premium
    /\ ServedByMain => mark_price = current_price
    /\ \A cp \in {ToUnits(900), ToUnits(1000)} :
           graph_break_even(ToUnits(1000), ToUnits(20), cp, PutTitle) = ToUnits(980)

C3_Witness ==
    /\ ServedByMain /\ option_type = CALL /\ strike_price # current_price
    /\ break_even = current_price - premium

\* C4: the payoff formula of the variant, evaluated at the break-even price
\* reported for a request, is zero.
C4_BreakEvenIsZero == ServedByMain => StatedPayoff(break_even) = 0

C6_Grid ==
    (Calculated /\ current_price > 0) =>
        /\ Len(prices) = N
        /\ \A i \in 1..(N - 1) : prices[i] < prices[i + 1]
        /\ \A i \in 1..(N - 1) : prices[i + 1] - prices[i] = prices[2] - prices[1]
        /\ prices[1] > 0
        /\ 10 * prices[1] = current_price * (IF option_type = PUT THEN 1 ELSE 5)
        /\ prices[N] = current_price * 2
        /\ Len(profit_loss) = N
        /\ ValidParameters => \A i \in 1..N : profit_loss[i] = StatedPayoff(prices[i])

C6_Witness ==
    /\ ServedByMain /\ option_type = CALL /\ current_price = ToUnits(20)
    /\ prices[1] = ToUnits(10) /\ prices[N] = ToUnits(40)
    /\ profit_loss[1] # profit_loss[N]

\* C7: currentPayoff is the linear interpolation of the curve over the grid
\* at the marked price: the curve value on a grid entry, a point of the
\* straight line between the neighbouring values inside a grid cell, and the
\* boundary value outside the grid.
C7_Interpolation ==
    (Graphed /\ Increasing(prices)) =>
        LET v == current_profit_loss
            x == mark_price
        IN  /\ v[3] > 0
            /\ \A i \in 1..N : x = prices[i] => IsValue(v, profit_loss[i])
            /\ \A i \in 1..(N - 1) :
                   (prices[i] < x /\ x < prices[i + 1]) =>
                       LET dx == prices[i + 1] - prices[i]
                           rise == (profit_loss[i + 1] - profit_loss[i]) * (x - prices[i])
                       IN  \/ v[3] = dx /\ (v[1] - profit_loss[i]) * dx + v[2] = rise
                           \/ v[3] # dx /\ ((v[1] - profit_loss[i]) * v[3] + v[2]) * dx
                                               = rise * v[3]
            /\ x < prices[1] => IsValue(v, profit_loss[1])
            /\ x > prices[N] => IsValue(v, profit_loss[N])

C7_Witness ==
    /\ Graphed /\ Increasing(prices)
    /\ \E i \in 1..(N - 1) :
           /\ prices[i] < mark_price /\ mark_price < prices[i + 1]
           /\ profit_loss[i] # profit_loss[i + 1]
           /\ current_profit_loss[2] # 0

\* C8: both payoffs are continuous at the strike: the branch that owns
\* price = strike and the other branch's formula give the same value there.
C8_Continuity ==
    (Calculated /\ ValidParameters) =>
        /\ put_expired(premium, shares)
               = put_assigned(strike_price, strike_price, premium, shares)
        /\ call_held(strike_price, premium, current_price, shares)
               = call_capped(strike_price, premium, current_price, shares)
        /\ \A i \in 1..N :
               prices[i] = strike_price =>
                   IF option_type = PUT
                   THEN /\ profit_loss[i] = put_expired(premium, shares)
                        /\ profit_loss[i]
                               = put_assigned(prices[i], strike_price, premium, shares)
                   ELSE /\ profit_loss[i]
                               = call_held(prices[i], premium, current_price, shares)
                        /\ profit_loss[i]
                               = call_capped(strike_price, premium, current_price, shares)

C8_Witness ==
    /\ Calculated /\ ValidParameters /\ option_type = PUT
    /\ prices[N] = strike_price
    /\ profit_loss[N] = premium * shares
    /\ profit_loss[N - 1] < profit_loss[N]

\* C9: a request gives the results the same request gave before, whatever
\* was calculated in between.
C9_Deterministic ==
    (seen.set /\ ServedByMain /\ Request = seen.req) => Bundle = seen.bundle

C9_Witness ==
    /\ seen.set /\ seen.others
    /\ ServedByMain /\ Request = seen.req
    /\ Bundle = seen.bundle

\* C10 as stated: the profit/loss marked at currentPrice is the payoff formula
\* evaluated at currentPrice.
C10_MarkIsExact ==
    ServedByMain => IsValue(current_profit_loss, StatedPayoff(current_price))

\* the strike lies strictly inside the grid cell that holds currentPrice
StrikeInCurrentCell ==
    \E i \in 1..(N - 1) :
        /\ prices[i] <= current_price /\ current_price <= prices[i + 1]
        /\ prices[i] < strike_price /\ strike_price < prices[i + 1]

\* C10 amended: the profit/loss marked at currentPrice is the payoff formula
\* evaluated at currentPrice unless the strike lies strictly between the two
\* grid entries next to currentPrice.
C10_MarkIsExactOffKink ==
    (ServedByMain /\ ~StrikeInCurrentCell) =>
        IsValue(current_profit_loss, StatedPayoff(current_price))

C10_Witness ==
    /\ ServedByMain /\ ~StrikeInCurrentCell
    /\ option_type = PUT /\ current_price < strike_price
    /\ current_profit_loss[2] # 0
    /\ IsValue(current_profit_loss, StatedPayoff(current_price))

====
